---------------------------- MODULE Spec2Model ----------------------------
(***************************************************************************)
(* Model of the two tentacle scripts of the repository:                    *)
(*   src/tri_lobe_tentacle_generator.py  ("generator")                     *)
(*   src/render_tentacle_cli.py          ("cli")                           *)
(* A behaviour is one run of one script as a program.  The host            *)
(* application is modelled by the outcomes its calls can have (an          *)
(* operator that is missing, a modifier that fails, an engine name that is *)
(* rejected).                                                              *)
(*                                                                         *)
(* Lengths are exact rationals in millimetres: every length of the source  *)
(* is <value in mm> * MM with MM = 0.001, a uniform factor, and the one    *)
(* literal given in metres (0.0005) is 1/2 mm.  A rational is a pair       *)
(* <<n, d>> in lowest terms with d > 0.                                    *)
(*                                                                         *)
(* Every lobe's points lie on the ray of the lobe's angle: the source      *)
(* computes x = offset * cos(angle), y = offset * sin(angle) with the same *)
(* angle for the start point, the end point and every interpolated centre, *)
(* so a point is kept as [off, deg, z]: its signed offset along the        *)
(* ray, the ray's angle in degrees and its height.                         *)
(***************************************************************************)
EXTENDS Integers, Sequences, FiniteSets, TLC

-----------------------------------------------------------------------------
(* Exact rational arithmetic                                               *)

RECURSIVE Gcd(_, _)
Gcd(a, b) == IF b = 0 THEN a ELSE Gcd(b, a % b)

Abs(a) == IF a < 0 THEN 0 - a ELSE a

Norm(n, d) ==
    LET g == Gcd(Abs(n), Abs(d))
        s == IF d < 0 THEN 0 - 1 ELSE 1
    IN  <<s * (n \div g), s * (d \div g)>>

Q(n, d) == Norm(n, d)

QInt(n) == <<n, 1>>

Lcm(a, b) == (a \div Gcd(a, b)) * b

QAdd(x, y) ==
    LET l == Lcm(x[2], y[2])
    IN  Norm(x[1] * (l \div x[2]) + y[1] * (l \div y[2]), l)

QNeg(x) == <<0 - x[1], x[2]>>

QSub(x, y) == QAdd(x, QNeg(y))

QMul(x, y) ==
    LET g1 == Gcd(Abs(x[1]), y[2])
        g2 == Gcd(Abs(y[1]), x[2])
    IN  Norm((x[1] \div g1) * (y[1] \div g2), (x[2] \div g2) * (y[2] \div g1))

QDiv(x, y) == QMul(x, IF y[1] < 0 THEN <<0 - y[2], 0 - y[1]>> ELSE <<y[2], y[1]>>)

QLe(x, y) ==
    LET l == Lcm(x[2], y[2])
    IN  x[1] * (l \div x[2]) <= y[1] * (l \div y[2])

QLt(x, y) == QLe(x, y) /\ x # y

QMin(x, y) == IF QLe(x, y) THEN x ELSE y

QMax(x, y) == IF QLe(x, y) THEN y ELSE x

QAbs(x) == <<Abs(x[1]), x[2]>>

(* int(x) of Python for x >= 0: truncation *)
QTrunc(x) == x[1] \div x[2]

-----------------------------------------------------------------------------
(* Trigonometry on the angles the scripts use.  Every angle is a multiple  *)
(* of 30 degrees, and the scripts take sin only of three times a lobe      *)
(* angle, a multiple of 90 degrees.                                        *)

(* math.sin(angle * 3) for angle = deg degrees *)
Sin3(deg) ==
    LET t == (3 * deg) % 360
    IN  CASE t = 0 -> 0
          [] t = 90 -> 1
          [] t = 180 -> 0
          [] t = 270 -> 0 - 1

-----------------------------------------------------------------------------
(* Bounds of the model                                                     *)

(* the cli's tentacle_len_mm is drawn from 75, 150, ... (75 * MaxLenIdx) *)
MaxLenIdx == 2

(* the cli's bladder_spacing_mm is drawn from 5, 10, ... (5 * MaxSpacingIdx) *)
MaxSpacingIdx == 3

(* the host may fail the boolean modifier of any of the first              *)
(* MaxFailCandidates voids handed to subtract_voids                        *)
MaxFailCandidates == 2

-----------------------------------------------------------------------------
(* Parameters                                                              *)

(* render_tentacle_cli.py, PARAMETERS section, as shipped *)
CliDefaults ==
    [ tentacle_len_mm |-> QInt(150),
      base_radius_mm |-> QInt(25),
      tip_radius_mm |-> QInt(0),
      bladder_long_mm |-> QInt(10),
      bladder_short_mm |-> QInt(6),
      bladder_spacing_mm |-> QInt(15),
      channel_radius_mm |-> QInt(2) ]

(* the parameter settings a cli run is started with: the shipped ones and  *)
(* edits of the length, the spacing and the bladder's minor axis           *)
CliParams ==
    { [CliDefaults EXCEPT !.tentacle_len_mm = QInt(75 * l),
                          !.bladder_spacing_mm = QInt(5 * s),
                          !.bladder_short_mm = sh] :
        l \in 1..MaxLenIdx, s \in 1..MaxSpacingIdx, sh \in {QInt(6), Q(2, 5)} }

(* tri_lobe_tentacle_generator.py, PARAMETERS section, as shipped *)
GenDefaults ==
    [ tentacle_len_mm |-> QInt(150),
      base_radius_mm |-> QInt(25),
      tip_radius_mm |-> QInt(0),
      bladder_long_mm |-> QInt(12),
      bladder_short_mm |-> QInt(6),
      bladder_spacing_mm |-> Q(75, 4),
      channel_radius_mm |-> QInt(2),
      connector_radius_mm |-> Q(127, 20),
      connector_length_mm |-> QInt(20),
      export_main |-> TRUE,
      export_cores |-> TRUE,
      debug_mode |-> FALSE,
      skip_boolean_ops |-> TRUE ]

(* the settings a generator run is started with: the shipped ones and the  *)
(* edits of the two switches that decide what happens to the voids         *)
GenParams ==
    { [GenDefaults EXCEPT !.skip_boolean_ops = sk, !.export_cores = ec] :
        sk \in BOOLEAN, ec \in BOOLEAN }

Lobes == 0..2

-----------------------------------------------------------------------------
(* render_tentacle_cli.py: create_bladders                                 *)

(* angle = lobe * 2 * math.pi / 3 + math.pi / 6, in degrees *)
cb_angle(lobe) == lobe * 120 + 30

cb_actual_offset_start(P, lobe) ==
    LET offset_ratio_start == Q(1, 2)
        offset_distance_start == QMul(P.base_radius_mm, offset_ratio_start)
        lobe_effect_start == QMul(QInt(Sin3(cb_angle(lobe))), Q(35, 100))
    IN  QMul(offset_distance_start, QAdd(QInt(1), lobe_effect_start))

cb_z_end(P) == QMul(P.tentacle_len_mm, Q(85, 100))

cb_actual_offset_end(P, lobe) ==
    LET z_ratio_end == Q(85, 100)
        offset_ratio_end == QSub(Q(1, 2), QMul(Q(3, 10), z_ratio_end))
        offset_distance_end == QMul(P.base_radius_mm, offset_ratio_end)
        cube == QMul(z_ratio_end, QMul(z_ratio_end, z_ratio_end))
        lobe_effect_end ==
            QMul(QMul(QInt(Sin3(cb_angle(lobe))), Q(35, 100)), QSub(QInt(1), cube))
    IN  QMul(offset_distance_end, QAdd(QInt(1), lobe_effect_end))

(* (start_x, start_y) at z = 0 *)
cb_start(P, lobe) ==
    [off |-> cb_actual_offset_start(P, lobe), deg |-> cb_angle(lobe), z |-> QInt(0)]

(* (end_x, end_y) with inward_factor = 0.4, at z_end *)
cb_end(P, lobe) ==
    LET inward_factor == Q(4, 10)
    IN  [off |-> QMul(cb_actual_offset_end(P, lobe), inward_factor),
         deg |-> cb_angle(lobe), z |-> cb_z_end(P)]

num_bladders(P) == QTrunc(QDiv(P.tentacle_len_mm, P.bladder_spacing_mm)) - 1

cb_z_pos(P, i) == QMul(QInt(i + 1), P.bladder_spacing_mm)

(* the break test with > in the place of >= *)
cb_break_strict(P, i) ==
    QLt(QSub(P.tentacle_len_mm, P.bladder_spacing_mm), cb_z_pos(P, i))

(* the loop's break test: z_pos >= tentacle_len_mm * MM - bladder_spacing_mm * MM *)
cb_break(P, i) ==
    QLe(QSub(P.tentacle_len_mm, P.bladder_spacing_mm), cb_z_pos(P, i))

cb_path_ratio(P, i) == QDiv(cb_z_pos(P, i), cb_z_end(P))

(* the two limits applied in the other order: min(max(r, lower), upper) *)
cb_bladder_radius_upper_last(P, i) ==
    LET z_ratio == QDiv(QMul(QInt(i + 1), P.bladder_spacing_mm), P.tentacle_len_mm)
        tentacle_radius_at_z == QMul(P.base_radius_mm, QSub(QInt(1), z_ratio))
        size_ratio == QSub(Q(35, 100), QMul(z_ratio, Q(15, 100)))
        bladder_radius == QMul(tentacle_radius_at_z, size_ratio)
        min_bladder_radius == Q(1, 2)
        max_bladder_radius == QMul(P.bladder_short_mm, Q(12, 10))
    IN  QMin(QMax(bladder_radius, min_bladder_radius), max_bladder_radius)

cb_bladder_radius(P, i) ==
    LET z_ratio == QDiv(cb_z_pos(P, i), P.tentacle_len_mm)
        tentacle_radius_at_z == QMul(P.base_radius_mm, QSub(QInt(1), z_ratio))
        size_ratio == QSub(Q(35, 100), QMul(z_ratio, Q(15, 100)))
        bladder_radius == QMul(tentacle_radius_at_z, size_ratio)
        min_bladder_radius == Q(1, 2)
        max_bladder_radius == QMul(P.bladder_short_mm, Q(12, 10))
    IN  QMax(QMin(bladder_radius, max_bladder_radius), min_bladder_radius)

(* the object primitive_uv_sphere_add creates in iteration (lobe, i): its  *)
(* name Bladder_L{lobe+1}_{i+1}, its height, where it sits on the channel  *)
(* path and its radius; scale.z = bladder_long_mm / bladder_short_mm       *)
cb_bladder(P, lobe, i) ==
    [ kind |-> "Bladder", lobe |-> lobe + 1, n |-> i + 1,
      z_pos |-> cb_z_pos(P, i),
      path_ratio |-> cb_path_ratio(P, i),
      radius |-> cb_bladder_radius(P, i),
      scale_z |-> QDiv(P.bladder_long_mm, P.bladder_short_mm) ]

(* center_x, center_y of a bladder: the linear interpolation between the   *)
(* start and the end point, as the offset along the lobe's ray             *)
cb_center_offset(P, b) ==
    LET s == cb_start(P, b.lobe - 1).off
        e == cb_end(P, b.lobe - 1).off
    IN  QAdd(s, QMul(QSub(e, s), b.path_ratio))

-----------------------------------------------------------------------------
(* render_tentacle_cli.py: create_channels                                 *)

cc_angle(lobe) == lobe * 120 + 30

cc_actual_offset_start(P, lobe) ==
    LET offset_ratio_start == Q(1, 2)
        offset_distance_start == QMul(P.base_radius_mm, offset_ratio_start)
        lobe_effect_start == QMul(QInt(Sin3(cc_angle(lobe))), Q(35, 100))
    IN  QMul(offset_distance_start, QAdd(QInt(1), lobe_effect_start))

cc_actual_offset_end(P, lobe) ==
    LET z_ratio_end == Q(85, 100)
        offset_ratio_end == QSub(Q(1, 2), QMul(Q(3, 10), z_ratio_end))
        offset_distance_end == QMul(P.base_radius_mm, offset_ratio_end)
        cube == QMul(z_ratio_end, QMul(z_ratio_end, z_ratio_end))
        lobe_effect_end ==
            QMul(QMul(QInt(Sin3(cc_angle(lobe))), Q(35, 100)), QSub(QInt(1), cube))
    IN  QMul(offset_distance_end, QAdd(QInt(1), lobe_effect_end))

cc_start(P, lobe) ==
    [off |-> cc_actual_offset_start(P, lobe), deg |-> cc_angle(lobe), z |-> QInt(0)]

cc_end(P, lobe) ==
    LET inward_factor == Q(4, 10)
    IN  [off |-> QMul(cc_actual_offset_end(P, lobe), inward_factor),
         deg |-> cc_angle(lobe),
         z |-> QMul(P.tentacle_len_mm, Q(85, 100))]

cc_base_channel_radius(P) ==
    LET base_tentacle_radius == P.base_radius_mm
        base_channel_radius == QMul(base_tentacle_radius, Q(15, 100))
    IN  QMin(base_channel_radius, QMul(P.channel_radius_mm, Q(15, 10)))

cc_tip_channel_radius(P) ==
    LET tip_tentacle_radius == QMul(P.base_radius_mm, Q(15, 100))
        tip_channel_radius == QMul(tip_tentacle_radius, Q(10, 100))
    IN  QMax(tip_channel_radius, QMul(P.channel_radius_mm, Q(1, 10)))

(* the cone primitive_cone_add creates for a lobe, named Channel_Lobe_{lobe+1} *)
cc_channel(P, lobe) ==
    [ kind |-> "Channel", lobe |-> lobe + 1, n |-> 0,
      start |-> cc_start(P, lobe),
      end |-> cc_end(P, lobe),
      radius1 |-> cc_base_channel_radius(P),
      radius2 |-> cc_tip_channel_radius(P) ]

-----------------------------------------------------------------------------
(* tri_lobe_tentacle_generator.py: the voids                               *)

(* angle = lobe_index * 2 * math.pi / 3, in degrees *)
gen_angle(lobe_index) == lobe_index * 120

(* offset_distance = base_radius_mm * 0.6 * MM, in create_enhanced_bladder_stack *)
bs_offset_distance(P) == QMul(P.base_radius_mm, Q(6, 10))

(* a stack that stops one bladder short *)
stack_num_bladders_short == 8 - 1

(* num_bladders = 8 in create_enhanced_bladder_stack *)
stack_num_bladders == 8

bs_z_pos(P, i) == QMul(QInt(i + 1), P.bladder_spacing_mm)

bs_taper_factor(P, i) ==
    LET z_ratio == QDiv(bs_z_pos(P, i), P.tentacle_len_mm)
    IN  QSub(QInt(1),
             QMul(z_ratio, QSub(QInt(1), QDiv(P.tip_radius_mm, P.base_radius_mm))))

bs_actual_short(P, i) ==
    LET max_radius == QMul(QMul(P.base_radius_mm, Q(9, 10)), bs_taper_factor(P, i))
    IN  QMin(QMul(P.bladder_short_mm, bs_taper_factor(P, i)), max_radius)

bs_actual_long(P, i) ==
    LET max_radius == QMul(QMul(P.base_radius_mm, Q(9, 10)), bs_taper_factor(P, i))
    IN  QMin(QMul(P.bladder_long_mm, bs_taper_factor(P, i)), max_radius)

(* the sphere of iteration i of create_enhanced_bladder_stack(lobe_index), *)
(* named EnhancedBladder_L{lobe_index+1}_{i+1}: a unit sphere (1 mm)       *)
(* scaled by (actual_short, actual_short, actual_long)                     *)
bs_bladder(P, lobe_index, i) ==
    [ kind |-> "Bladder", lobe |-> lobe_index + 1, n |-> i + 1, core |-> FALSE,
      off |-> bs_offset_distance(P), deg |-> gen_angle(lobe_index),
      z |-> bs_z_pos(P, i),
      radius |-> bs_actual_short(P, i),
      half_height |-> bs_actual_long(P, i) ]

(* the cylinder of iteration i of create_enhanced_channels, named          *)
(* Channel_Lobe_{i+1}: centred at half the length, 80% of the length deep  *)
ec_channel(P, i) ==
    [ kind |-> "Channel", lobe |-> i + 1, n |-> 0, core |-> FALSE,
      off |-> QMul(P.base_radius_mm, Q(6, 10)), deg |-> gen_angle(i),
      z |-> QMul(P.tentacle_len_mm, Q(1, 2)),
      radius |-> P.channel_radius_mm,
      half_height |-> QMul(QMul(P.tentacle_len_mm, Q(8, 10)), Q(1, 2)) ]

(* the cylinder of iteration i of create_connector_holes, named Connector_{i+1} *)
ch_connector(P, i) ==
    [ kind |-> "Connector", lobe |-> i + 1, n |-> 0, core |-> FALSE,
      off |-> QMul(P.base_radius_mm, Q(7, 10)), deg |-> gen_angle(i),
      z |-> QMul(P.connector_length_mm, Q(1, 2)),
      radius |-> P.connector_radius_mm,
      half_height |-> QMul(P.connector_length_mm, Q(1, 2)) ]

(* void.copy() renamed void.name + "_Core" *)
core_copy(void) == [void EXCEPT !.core = TRUE]

-----------------------------------------------------------------------------
(* Paths.  A path is a sequence of tokens: "/", the text ".stl" or         *)
(* ".blend" wherever it occurs in the path, and the text between them.     *)

(* os.path.join(dir, filename) *)
PathJoin(dir, filename) == dir \o <<"/">> \o filename

(* str.replace('.stl', '.blend'): every occurrence in the whole string *)
ReplaceStl(path) ==
    [k \in DOMAIN path |-> IF path[k] = ".stl" THEN ".blend" ELSE path[k]]

(* the directory a path's file lies in: the path up to its last "/" *)
DirName(path) ==
    LET last == CHOOSE k \in DOMAIN path :
                    path[k] = "/" /\ \A j \in DOMAIN path : j > k => path[j] # "/"
    IN  SubSeq(path, 1, last - 1)

(* the directories a copy of render_tentacle_cli.py may lie in:            *)
(* os.path.dirname(os.path.abspath(__file__))                             *)
ScriptDirs ==
    { <<"/", "home", "/", "tentacle">>,
      <<"/", "srv", "/", "scans", ".stl", "/", "tentacle">> }

(* output_dir = os.path.join(<script directory>, "out") *)
OutputDirOf(scriptDir) == PathJoin(scriptDir, <<"out">>)

(* export_path = "out/" of the generator *)
export_path == <<"out">>

-----------------------------------------------------------------------------
(* The body meshes                                                         *)

(* primitive_cone_add(vertices=32, ...) of create_simple_tentacle *)
cst_vertices == 32

(* primitive_cylinder_add(vertices=48, ...) of create_spaded_lobe_body *)
slb_vertices == 48

(* the local z coordinates of the vertices of a primitive added with       *)
(* depth = tentacle_len_mm: the host centres the mesh on the object's      *)
(* origin, and location = (0, 0, tentacle_len_mm/2) moves the object, not  *)
(* the coordinates bm.from_mesh hands out                                  *)
z_base(P) == QNeg(QDiv(P.tentacle_len_mm, QInt(2)))

z_tip(P) == QDiv(P.tentacle_len_mm, QInt(2))

(* location[2] of the primitive: tentacle_len_mm/2 *)
location_z(P) == QDiv(P.tentacle_len_mm, QInt(2))

(* the angles of the vertices of a ring of n vertices, of which the model  *)
(* keeps the multiples of 30 degrees *)
MeshAngles(n) == {d \in 0..359 : d % 30 = 0 /\ (d * n) % 360 = 0}

(* create_simple_tentacle:                                                 *)
(* z_ratio = (vert.co.z + tentacle_len_mm/2 * MM) / (tentacle_len_mm * MM) *)
cst_z_ratio(P, z) == QDiv(QAdd(z, QDiv(P.tentacle_len_mm, QInt(2))), P.tentacle_len_mm)

(* create_spaded_lobe_body: z_ratio = vert.co.z / (tentacle_len_mm * MM) *)
slb_z_ratio(P, z) == QDiv(z, P.tentacle_len_mm)

(* a vertex of a body mesh: its local height, its angle, the height ratio  *)
(* the deformation loop computed for it, and its radius after the loop     *)
Vertex(z, deg, z_ratio, radius) ==
    [z |-> z, deg |-> deg, z_ratio |-> z_ratio, radius |-> radius]

NoMesh == [verts |-> {}, faces |-> <<>>]

(* the faces a boolean modifier of the host can leave on a mesh, as the    *)
(* vertex count of each: all triangles, or quads and n-gons among them     *)
HostBooleanFaces == {<<3, 3, 3, 3>>, <<3, 4, 5>>}


(* create_simple_tentacle (cli): where a vertex of the cone (radius1 =     *)
(* base_radius_mm, radius2 = tip_radius_mm) with height ratio z_ratio and  *)
(* angle deg ends up: its radius on the cone, scaled by                    *)
(* scale_factor = 1 + sin(angle * 3) * 0.35 * (1 - z_ratio**3)             *)
cst_vertex_radius(P, deg, z_ratio) ==
    LET cone == QAdd(P.base_radius_mm,
                     QMul(QSub(P.tip_radius_mm, P.base_radius_mm), z_ratio))
        cube == QMul(z_ratio, QMul(z_ratio, z_ratio))
        lobe_effect == QMul(QMul(QInt(Sin3(deg)), Q(35, 100)), QSub(QInt(1), cube))
        scale_factor == QAdd(QInt(1), lobe_effect)
    IN  QMul(cone, scale_factor)

(* create_spaded_lobe_body (generator): where a vertex of the cylinder     *)
(* (radius base_radius_mm) with height ratio z_ratio and angle deg ends    *)
(* up: for 0 < z_ratio < 1 at radius * taper_factor * lobe_effect with     *)
(* taper_factor = 1 - z_ratio and                                          *)
(* lobe_effect = 1 + 0.8 * sin(angle * 3) * taper_factor                   *)
slb_vertex_radius(P, deg, z_ratio) ==
    LET taper_factor == QSub(QInt(1), z_ratio)
        lobe_effect == QAdd(QInt(1),
                            QMul(QMul(Q(8, 10), QInt(Sin3(deg))), taper_factor))
    IN  IF QLt(QInt(0), z_ratio) /\ QLt(z_ratio, QInt(1))
        THEN QMul(QMul(P.base_radius_mm, taper_factor), lobe_effect)
        ELSE P.base_radius_mm

(* the mesh create_simple_tentacle leaves: the base ring of the cone and,  *)
(* for radius2 = 0, its apex; the cone's side faces and its base cap       *)
cst_mesh(P) ==
    LET ring(z, angles) ==
            {Vertex(z, d, cst_z_ratio(P, z),
                    cst_vertex_radius(P, d, cst_z_ratio(P, z))) : d \in angles}
    IN  [verts |-> ring(z_base(P), MeshAngles(cst_vertices))
                   \cup ring(z_tip(P), IF P.tip_radius_mm = QInt(0) THEN {0}
                                       ELSE MeshAngles(cst_vertices)),
         faces |-> [k \in 1..cst_vertices |->
                       IF P.tip_radius_mm = QInt(0) THEN 3 ELSE 4]
                   \o <<cst_vertices>>]

(* the mesh create_spaded_lobe_body leaves: the two rings of the cylinder, *)
(* its quad side faces and its two caps.  make_manifold finds nothing to   *)
(* merge, delete or fill on it.                                            *)
slb_mesh(P) ==
    LET ring(z) ==
            {Vertex(z, d, slb_z_ratio(P, z),
                    slb_vertex_radius(P, d, slb_z_ratio(P, z))) :
                d \in MeshAngles(slb_vertices)}
    IN  [verts |-> ring(z_base(P)) \cup ring(z_tip(P)),
         faces |-> [k \in 1..slb_vertices |-> 4] \o <<slb_vertices, slb_vertices>>]

-----------------------------------------------------------------------------
(* State                                                                   *)

VARIABLES
    script,      \* which script runs: "generator" or "cli"
    params,      \* the module-level parameters of the run
    host,        \* what the host application offers: the render engines it accepts
    output_dir,  \* the cli's output_dir
    pc,          \* the position of the run
    lobe, idx,   \* loop variables of the creation loops
    scene,       \* the names of the objects in the scene
    hidden,      \* the names of the objects hidden with hide_set(True)
    bladders,    \* all_bladders / bladders: the records of the bladders created
    channels,    \* channels
    connectors,  \* connectors
    cores,       \* sacrificial_cores: the names unioned into it, or {} for None
    combined,    \* combined_hydraulics of the cli
    subtracted,  \* the voids a DIFFERENCE modifier has cut out of the body
    engine,      \* scene.render.engine
    engineLog,   \* the engine assignments tried, in order, with their outcome
    dirs,        \* the directories that exist
    written,     \* the files written, in order: [path, obj, content]
    exportLog,   \* the export_stl calls of the cli: [file, attempts, result]
    exc,         \* the exception that left main, or "none"
    reported,    \* the __main__ handler printed the error
    exitStatus,  \* -1 while running, else the status the program ended with
    configCheck, \* the branch the final configuration check took
    body,        \* the mesh of the body: its vertices and the vertex count of each face
    cores_faces, \* the vertex count of each face of the sacrificial cores' mesh
    joinLog      \* the unions and removals of join_bladders_and_channels, in order

vars == <<script, params, host, output_dir, pc, lobe, idx, scene, hidden, bladders,
          channels, connectors, cores, combined, subtracted, engine, engineLog, dirs,
          written, exportLog, exc, reported, exitStatus, configCheck, body,
          cores_faces, joinLog>>

(* the name of an object: its kind, lobe and number, and whether it is a   *)
(* "_Core" copy                                                            *)
Name(o) == <<o.kind, o.lobe, o.n, FALSE>>

CoreName(o) == <<o.kind, o.lobe, o.n, TRUE>>

Names(objs) == {Name(objs[k]) : k \in DOMAIN objs}

BodyName == <<"Body", 0, 0, FALSE>>

(* the candidates with the fallback tried first *)
EngineCandidates_cycles_first == <<"CYCLES", "BLENDER_EEVEE_NEXT", "BLENDER_EEVEE">>

(* the engine names main assigns, in the order of its three attempts *)
EngineCandidates == <<"BLENDER_EEVEE_NEXT", "BLENDER_EEVEE", "CYCLES">>

Range(f) == {f[k] : k \in DOMAIN f}

InitCommon ==
    /\ host \in [engines : SUBSET Range(EngineCandidates)]
    /\ lobe = 0 /\ idx = 0
    /\ scene = {} /\ hidden = {}
    /\ bladders = <<>> /\ channels = <<>> /\ connectors = <<>>
    /\ cores = {} /\ combined = <<>> /\ subtracted = {}
    /\ engine = "default" /\ engineLog = <<>>
    /\ written = <<>> /\ exportLog = <<>>
    /\ exc = "none" /\ reported = FALSE /\ exitStatus = 0 - 1
    /\ configCheck = "none"
    /\ body = NoMesh /\ cores_faces = <<>> /\ joinLog = <<>>

InitGenerator ==
    /\ script = "generator"
    /\ params \in GenParams
    /\ output_dir = export_path
    /\ dirs \in SUBSET {export_path}
    /\ pc = "clear_scene"

InitCli ==
    /\ script = "cli"
    /\ params \in CliParams
    /\ \E d \in ScriptDirs :
          /\ output_dir = OutputDirOf(d)
          /\ dirs \in SUBSET {OutputDirOf(d), ReplaceStl(OutputDirOf(d))}
    /\ pc = "setup_output_dir"

Init == InitCommon /\ (InitGenerator \/ InitCli)

-----------------------------------------------------------------------------
(* tri_lobe_tentacle_generator.py: main (test_mode = 4) and __main__       *)

Append2(seq, a, b) == Append(seq, <<a, b>>)

(* main: clear_scene(), create_camera(), create_lighting(), setup_world() *)
GenSetupScene ==
    /\ script = "generator" /\ pc = "clear_scene"
    /\ scene' = {<<"TentacleCamera", 0, 0, FALSE>>, <<"KeyLight", 0, 0, FALSE>>}
    /\ pc' = "engine1"
    /\ UNCHANGED <<body, cores_faces, joinLog, script, params, host,
                   output_dir, lobe, idx, hidden, bladders, channels,
                   connectors, cores, combined, subtracted, engine, engineLog,
                   dirs, written, exportLog, exc, reported, exitStatus,
                   configCheck>>

(* main: try: engine = 'BLENDER_EEVEE_NEXT' except TypeError: pass *)
GenTryEeveeNext ==
    /\ script = "generator" /\ pc = "engine1"
    /\ IF EngineCandidates[1] \in host.engines
       THEN /\ engine' = EngineCandidates[1]
            /\ engineLog' = Append2(engineLog, EngineCandidates[1], "set")
            /\ pc' = "body"
       ELSE /\ engine' = engine
            /\ engineLog' = Append2(engineLog, EngineCandidates[1], "TypeError")
            /\ pc' = "engine2"
    /\ UNCHANGED <<body, cores_faces, joinLog, script, params, host,
                   output_dir, lobe, idx, scene, hidden, bladders, channels,
                   connectors, cores, combined, subtracted, dirs, written,
                   exportLog, exc, reported, exitStatus, configCheck>>

(* main: if not engine_set: try: engine = 'BLENDER_EEVEE' except TypeError: pass *)
GenTryEevee ==
    /\ script = "generator" /\ pc = "engine2"
    /\ IF EngineCandidates[2] \in host.engines
       THEN /\ engine' = EngineCandidates[2]
            /\ engineLog' = Append2(engineLog, EngineCandidates[2], "set")
            /\ pc' = "body"
       ELSE /\ engine' = engine
            /\ engineLog' = Append2(engineLog, EngineCandidates[2], "TypeError")
            /\ pc' = "engine3"
    /\ UNCHANGED <<body, cores_faces, joinLog, script, params, host,
                   output_dir, lobe, idx, scene, hidden, bladders, channels,
                   connectors, cores, combined, subtracted, dirs, written,
                   exportLog, exc, reported, exitStatus, configCheck>>

(* main: if not engine_set: engine = 'CYCLES', outside any try *)
GenTryCycles ==
    /\ script = "generator" /\ pc = "engine3"
    /\ IF EngineCandidates[3] \in host.engines
       THEN /\ engine' = EngineCandidates[3]
            /\ engineLog' = Append2(engineLog, EngineCandidates[3], "set")
            /\ pc' = "body"
            /\ exc' = exc
       ELSE /\ engine' = engine
            /\ engineLog' = Append2(engineLog, EngineCandidates[3], "TypeError")
            /\ pc' = "raised"
            /\ exc' = "TypeError"
    /\ UNCHANGED <<body, cores_faces, joinLog, script, params, host,
                   output_dir, lobe, idx, scene, hidden, bladders, channels,
                   connectors, cores, combined, subtracted, dirs, written,
                   exportLog, reported, exitStatus, configCheck>>

(* main: create_build_volume_reference(), create_spaded_lobe_body(),       *)
(* the silicone material; all_bladders = [] and the first lobe's stack     *)
GenCreateBody ==
    /\ script = "generator" /\ pc = "body"
    /\ scene' = scene \cup {<<"BuildVolumeReference", 0, 0, FALSE>>, BodyName}
    /\ body' = slb_mesh(params)
    /\ pc' = "bladders" /\ lobe' = 0 /\ idx' = 0
    /\ UNCHANGED <<cores_faces, joinLog, script, params, host, output_dir,
                   hidden, bladders, channels, connectors, cores, combined,
                   subtracted, engine, engineLog, dirs, written, exportLog,
                   exc, reported, exitStatus, configCheck>>

(* one iteration of `for i in range(num_bladders)` of                      *)
(* create_enhanced_bladder_stack(lobe), called by main for lobe 0, 1, 2    *)
GenCreateBladder ==
    /\ script = "generator" /\ pc = "bladders"
    /\ lobe \in Lobes /\ idx < stack_num_bladders
    /\ LET b == bs_bladder(params, lobe, idx)
       IN  /\ bladders' = Append(bladders, b)
           /\ scene' = scene \cup {Name(b)}
    /\ idx' = idx + 1
    /\ UNCHANGED <<body, cores_faces, joinLog, script, params, host,
                   output_dir, pc, lobe, hidden, channels, connectors, cores,
                   combined, subtracted, engine, engineLog, dirs, written,
                   exportLog, exc, reported, exitStatus, configCheck>>

(* create_enhanced_bladder_stack returns; main extends all_bladders and    *)
(* goes on to the next lobe, or to the channels after the third            *)
GenStackDone ==
    /\ script = "generator" /\ pc = "bladders"
    /\ lobe \in Lobes /\ idx >= stack_num_bladders
    /\ idx' = 0
    /\ IF lobe < 2
       THEN lobe' = lobe + 1 /\ pc' = pc
       ELSE lobe' = 0 /\ pc' = "channels"
    /\ UNCHANGED <<body, cores_faces, joinLog, script, params, host,
                   output_dir, scene, hidden, bladders, channels, connectors,
                   cores, combined, subtracted, engine, engineLog, dirs,
                   written, exportLog, exc, reported, exitStatus,
                   configCheck>>

(* create_enhanced_channels: for i in range(3) *)
GenCreateChannels ==
    /\ script = "generator" /\ pc = "channels"
    /\ channels' = [i \in 1..3 |-> ec_channel(params, i - 1)]
    /\ scene' = scene \cup {Name(ec_channel(params, i)) : i \in Lobes}
    /\ pc' = "connectors"
    /\ UNCHANGED <<body, cores_faces, joinLog, script, params, host,
                   output_dir, lobe, idx, hidden, bladders, connectors, cores,
                   combined, subtracted, engine, engineLog, dirs, written,
                   exportLog, exc, reported, exitStatus, configCheck>>

(* create_connector_holes: for i in range(3) *)
GenCreateConnectors ==
    /\ script = "generator" /\ pc = "connectors"
    /\ connectors' = [i \in 1..3 |-> ch_connector(params, i - 1)]
    /\ scene' = scene \cup {Name(ch_connector(params, i)) : i \in Lobes}
    /\ pc' = "cores"
    /\ UNCHANGED <<body, cores_faces, joinLog, script, params, host,
                   output_dir, lobe, idx, hidden, bladders, channels, cores,
                   combined, subtracted, engine, engineLog, dirs, written,
                   exportLog, exc, reported, exitStatus, configCheck>>

(* void_objects = all_bladders + channels + connectors *)
void_objects == bladders \o channels \o connectors

SacrificialCoresName == <<"SacrificialCores", 0, 0, FALSE>>

(* main: if export_cores and void_objects: copy every void as <name>_Core, *)
(* link it, and create_sacrificial_cores unions the copies into the first  *)
(* one, renamed SacrificialCores.  modifier_apply is not guarded there: a  *)
(* union the host fails raises RuntimeError out of main.  The faces of the *)
(* unioned mesh are what the host's boolean solver leaves.                 *)
GenCreateCores ==
    /\ script = "generator" /\ pc = "cores"
    /\ IF params.export_cores /\ void_objects # <<>>
       THEN \E unionOk \in BOOLEAN, faces \in HostBooleanFaces :
              LET copies == {CoreName(void_objects[k]) : k \in DOMAIN void_objects}
                  first == CoreName(void_objects[1])
              IN  /\ scene' = (scene \cup copies \cup {SacrificialCoresName}) \ {first}
                  /\ IF unionOk
                     THEN /\ cores' = copies /\ cores_faces' = faces
                          /\ pc' = "boolean" /\ exc' = exc
                     ELSE /\ cores' = cores /\ cores_faces' = cores_faces
                          /\ pc' = "raised" /\ exc' = "RuntimeError"
       ELSE /\ pc' = "boolean"
            /\ UNCHANGED <<scene, cores, cores_faces, exc>>
    /\ UNCHANGED <<body, joinLog, script, params, host, output_dir, lobe, idx,
                   hidden, bladders, channels, connectors, combined,
                   subtracted, engine, engineLog, dirs, written, exportLog,
                   reported, exitStatus, configCheck>>

(* the switch read the wrong way round *)
BooleanOpsSkipped_inverted(P) == ~P.skip_boolean_ops

(* main: `if skip_boolean_ops:` *)
BooleanOpsSkipped(P) == P.skip_boolean_ops

(* the voids whose modifier the host may fail to apply *)
FailCandidates ==
    {Name(void_objects[k]) : k \in {j \in DOMAIN void_objects : j <= MaxFailCandidates}}

(* main: if skip_boolean_ops: hide every void; else subtract_voids(body,   *)
(* void_objects): a DIFFERENCE modifier per void, skipped when the host    *)
(* fails to apply it, and every void object removed at the end; the faces *)
(* of the cut body are what the host's boolean solver leaves               *)
GenBooleanStep ==
    /\ script = "generator" /\ pc = "boolean"
    /\ IF BooleanOpsSkipped(params)
       THEN /\ hidden' = hidden \cup Names(void_objects)
            /\ UNCHANGED <<subtracted, scene, body>>
       ELSE \E failed \in SUBSET FailCandidates, faces \in HostBooleanFaces :
              /\ subtracted' = Names(void_objects) \ failed
              /\ body' = [body EXCEPT !.faces = faces]
              /\ scene' = scene \ Names(void_objects)
              /\ hidden' = hidden
    /\ pc' = "render"
    /\ UNCHANGED <<cores_faces, joinLog, script, params, host, output_dir,
                   lobe, idx, bladders, channels, connectors, cores, combined,
                   engine, engineLog, dirs, written, exportLog, exc, reported,
                   exitStatus, configCheck>>

ImageName == <<"Image", 0, 0, FALSE>>

SceneName == <<"Scene", 0, 0, FALSE>>

File(path, obj, content) ==
    [path |-> path, obj |-> obj, content |-> content, facets |-> <<>>]

(* the "outer loop" blocks export_stl writes for a mesh: one per face of   *)
(* bm.faces, holding one "vertex" line per element of face.verts           *)
stl_facets(faces) == [k \in DOMAIN faces |-> faces[k]]

(* main: make_manifold(tentacle_body), apply_transforms(tentacle_body),    *)
(* render_image("enhanced_tentacle_render.png"): any failure of the render *)
(* is caught there and reported as False; the host creates the directory   *)
(* of the image it writes                                                  *)
GenRender ==
    /\ script = "generator" /\ pc = "render"
    /\ \E ok \in BOOLEAN :
          IF ok
          THEN /\ written' = Append(written,
                     File(PathJoin(export_path, <<"enhanced_tentacle_render", ".png">>),
                          ImageName, scene \ hidden))
               /\ dirs' = dirs \cup {export_path}
          ELSE UNCHANGED <<written, dirs>>
    /\ pc' = "export_main"
    /\ UNCHANGED <<body, cores_faces, joinLog, script, params, host,
                   output_dir, lobe, idx, scene, hidden, bladders, channels,
                   connectors, cores, combined, subtracted, engine, engineLog,
                   exportLog, exc, reported, exitStatus, configCheck>>

(* export_stl(obj, filename) of the generator: the facets are written by   *)
(* hand to os.path.join(export_path, filename); on any Exception the scene *)
(* is saved as filepath.replace('.stl', '.blend') instead, and a failure   *)
(* of that is printed.  `content` is what the object's mesh holds, `faces` *)
(* the vertex count of each of its faces.                                  *)
gen_export_stl(obj, filename, content, faces, outcome) ==
    LET filepath == PathJoin(export_path, filename)
    IN  CASE outcome = "stl" ->
              <<[File(filepath, obj, content) EXCEPT !.facets = stl_facets(faces)]>>
          [] outcome = "blend" -> <<File(ReplaceStl(filepath), SceneName, scene)>>
          [] outcome = "failed" -> <<>>

(* what the file system lets an export end with *)
GenExportOutcomes ==
    IF export_path \in dirs THEN {"stl", "blend", "failed"} ELSE {"failed"}

(* main: if export_main: export_stl(tentacle_body, "tri_lobe_tentacle.stl") *)
GenExportMain ==
    /\ script = "generator" /\ pc = "export_main"
    /\ IF params.export_main
       THEN \E outcome \in GenExportOutcomes :
              written' = written \o gen_export_stl(BodyName,
                             <<"tri_lobe_tentacle", ".stl">>, subtracted,
                             body.faces, outcome)
       ELSE written' = written
    /\ pc' = "export_cores"
    /\ UNCHANGED <<body, cores_faces, joinLog, script, params, host,
                   output_dir, lobe, idx, scene, hidden, bladders, channels,
                   connectors, cores, combined, subtracted, engine, engineLog,
                   dirs, exportLog, exc, reported, exitStatus, configCheck>>

(* main: if export_cores and sacrificial_cores:                            *)
(*           export_stl(sacrificial_cores, "sacrificial_cores.stl")        *)
GenExportCores ==
    /\ script = "generator" /\ pc = "export_cores"
    /\ IF params.export_cores /\ cores # {}
       THEN \E outcome \in GenExportOutcomes :
              written' = written \o gen_export_stl(SacrificialCoresName,
                             <<"sacrificial_cores", ".stl">>, cores,
                             cores_faces, outcome)
       ELSE written' = written
    /\ pc' = "config_check"
    /\ UNCHANGED <<body, cores_faces, joinLog, script, params, host,
                   output_dir, lobe, idx, scene, hidden, bladders, channels,
                   connectors, cores, combined, subtracted, engine, engineLog,
                   dirs, exportLog, exc, reported, exitStatus, configCheck>>

(* expected_bladders, expected_channels, expected_connectors of main *)
expected_bladders == 8

expected_channels == 3

expected_connectors == 3

(* main: "Verify correct configuration", then main returns *)
GenConfigCheck ==
    /\ script = "generator" /\ pc = "config_check"
    /\ LET actual_bladders_per_lobe == Len(bladders) \div 3
       IN  configCheck' =
              IF /\ actual_bladders_per_lobe = expected_bladders
                 /\ Len(channels) = expected_channels
                 /\ Len(connectors) = expected_connectors
              THEN "match" ELSE "mismatch"
    /\ pc' = "returned"
    /\ UNCHANGED <<body, cores_faces, joinLog, script, params, host,
                   output_dir, lobe, idx, scene, hidden, bladders, channels,
                   connectors, cores, combined, subtracted, engine, engineLog,
                   dirs, written, exportLog, exc, reported, exitStatus>>

(* a handler that reports the error and ends with status 0 *)
HandlerExitStatus_success == 1 - 1

(* sys.exit(1) in the handler of __main__ *)
HandlerExitStatus == 1

(* __main__: try: main() except Exception as e: print, print_exc, sys.exit(1) *)
GenMainRaised ==
    /\ script = "generator" /\ pc = "raised"
    /\ reported' = TRUE
    /\ exitStatus' = HandlerExitStatus
    /\ pc' = "exited"
    /\ UNCHANGED <<body, cores_faces, joinLog, script, params, host,
                   output_dir, lobe, idx, scene, hidden, bladders, channels,
                   connectors, cores, combined, subtracted, engine, engineLog,
                   dirs, written, exportLog, exc, configCheck>>

(* __main__: main() returned, the script ends and the program with it *)
GenMainReturned ==
    /\ script = "generator" /\ pc = "returned"
    /\ exitStatus' = 0
    /\ pc' = "exited"
    /\ UNCHANGED <<body, cores_faces, joinLog, script, params, host,
                   output_dir, lobe, idx, scene, hidden, bladders, channels,
                   connectors, cores, combined, subtracted, engine, engineLog,
                   dirs, written, exportLog, exc, reported, configCheck>>

GenNext ==
    \/ GenSetupScene
    \/ GenTryEeveeNext
    \/ GenTryEevee
    \/ GenTryCycles
    \/ GenCreateBody
    \/ GenCreateBladder
    \/ GenStackDone
    \/ GenCreateChannels
    \/ GenCreateConnectors
    \/ GenCreateCores
    \/ GenBooleanStep
    \/ GenRender
    \/ GenExportMain
    \/ GenExportCores
    \/ GenConfigCheck
    \/ GenMainRaised
    \/ GenMainReturned

-----------------------------------------------------------------------------
(* render_tentacle_cli.py: main                                            *)

(* main: setup_output_dir() makes output_dir unless it exists;             *)
(* clear_scene() deletes every object                                      *)
CliSetupOutputDir ==
    /\ script = "cli" /\ pc = "setup_output_dir"
    /\ dirs' = IF output_dir \notin dirs THEN dirs \cup {output_dir} ELSE dirs
    /\ scene' = {}
    /\ pc' = "create_tentacle"
    /\ UNCHANGED <<body, cores_faces, joinLog, script, params, host,
                   output_dir, lobe, idx, hidden, bladders, channels,
                   connectors, cores, combined, subtracted, engine, engineLog,
                   written, exportLog, exc, reported, exitStatus,
                   configCheck>>

(* main: tentacle = create_simple_tentacle() *)
CliCreateTentacle ==
    /\ script = "cli" /\ pc = "create_tentacle"
    /\ scene' = scene \cup {BodyName}
    /\ body' = cst_mesh(params)
    /\ pc' = "bladders" /\ lobe' = 0 /\ idx' = 0
    /\ UNCHANGED <<cores_faces, joinLog, script, params, host, output_dir,
                   hidden, bladders, channels, connectors, cores, combined,
                   subtracted, engine, engineLog, dirs, written, exportLog,
                   exc, reported, exitStatus, configCheck>>

(* whether iteration i of `for i in range(num_bladders)` creates a bladder *)
cb_creates(P, i) == i < num_bladders(P) /\ ~cb_break(P, i)

(* create_bladders: an iteration of the inner loop that creates a bladder *)
CliCreateBladder ==
    /\ script = "cli" /\ pc = "bladders"
    /\ lobe \in Lobes /\ cb_creates(params, idx)
    /\ LET b == cb_bladder(params, lobe, idx)
       IN  /\ bladders' = Append(bladders, b)
           /\ scene' = scene \cup {Name(b)}
    /\ idx' = idx + 1
    /\ UNCHANGED <<body, cores_faces, joinLog, script, params, host,
                   output_dir, pc, lobe, hidden, channels, connectors, cores,
                   combined, subtracted, engine, engineLog, dirs, written,
                   exportLog, exc, reported, exitStatus, configCheck>>

(* create_bladders: the inner loop ends (range exhausted, or break) and    *)
(* the next lobe starts; after the third lobe the bladders are returned    *)
CliLobeDone ==
    /\ script = "cli" /\ pc = "bladders"
    /\ lobe \in Lobes /\ ~cb_creates(params, idx)
    /\ idx' = 0
    /\ IF lobe < 2
       THEN lobe' = lobe + 1 /\ pc' = pc
       ELSE lobe' = 0 /\ pc' = "channels"
    /\ UNCHANGED <<body, cores_faces, joinLog, script, params, host,
                   output_dir, scene, hidden, bladders, channels, connectors,
                   cores, combined, subtracted, engine, engineLog, dirs,
                   written, exportLog, exc, reported, exitStatus,
                   configCheck>>

(* main: channels = create_channels(): for lobe in range(3) *)
CliCreateChannels ==
    /\ script = "cli" /\ pc = "channels"
    /\ channels' = [k \in 1..3 |-> cc_channel(params, k - 1)]
    /\ scene' = scene \cup {Name(cc_channel(params, l)) : l \in Lobes}
    /\ pc' = "join" /\ lobe' = 0
    /\ UNCHANGED <<body, cores_faces, joinLog, script, params, host,
                   output_dir, idx, hidden, bladders, connectors, cores,
                   combined, subtracted, engine, engineLog, dirs, written,
                   exportLog, exc, reported, exitStatus, configCheck>>

HydraulicName(l) == <<"HydraulicSystem", l + 1, 0, FALSE>>

(* str(n) for n >= 0, as its characters *)
RECURSIVE Digits(_)
Digits(n) ==
    LET DigitChar(d) == <<"0", "1", "2", "3", "4", "5", "6", "7", "8", "9">>[d + 1]
    IN  IF n < 10 THEN <<DigitChar(n)>>
        ELSE Digits(n \div 10) \o <<DigitChar(n % 10)>>

(* `pattern in name` on strings given as their characters *)
Contains(name, pattern) ==
    \E k \in 0..(Len(name) - Len(pattern)) :
        SubSeq(name, k + 1, k + Len(pattern)) = pattern

(* create_bladders: bladder.name = f"Bladder_L{lobe+1}_{i+1}" *)
cb_name(b) ==
    <<"B", "l", "a", "d", "d", "e", "r", "_", "L">> \o Digits(b.lobe)
        \o <<"_">> \o Digits(b.n)

(* create_channels: channel.name = f"Channel_Lobe_{lobe+1}" *)
cc_name(c) ==
    <<"C", "h", "a", "n", "n", "e", "l", "_", "L", "o", "b", "e", "_">> \o Digits(c.lobe)

(* join_bladders_and_channels: base_obj.name = f"HydraulicSystem_Lobe_{lobe+1}" *)
jbc_name(l) ==
    <<"H", "y", "d", "r", "a", "u", "l", "i", "c", "S", "y", "s", "t", "e", "m",
      "_", "L", "o", "b", "e", "_">> \o Digits(l + 1)

(* the test with f"_{lobe+1}" in the place of f"_L{lobe+1}_" *)
InLobe_any_number(b, l) == Contains(cb_name(b), <<"_">> \o Digits(l + 1))

(* f"_L{lobe+1}_" in bladder.name *)
InLobe(b, l) == Contains(cb_name(b), <<"_", "L">> \o Digits(l + 1) \o <<"_">>)

(* bladders_by_lobe[l]: a bladder is appended to the list of the first     *)
(* lobe whose test it passes (`break`)                                     *)
bladders_by_lobe(l) ==
    SelectSeq(bladders,
              LAMBDA b : InLobe(b, l) /\ \A k \in Lobes : k < l => ~InLobe(b, k))

(* f"_Lobe_{lobe+1}" in c.name, the name being the one the channel has     *)
(* when the lobe's iteration reads it: renamed if an earlier iteration     *)
(* made it the base object                                                 *)
InLobeChannel(c, l) ==
    LET name == IF HydraulicName(c.lobe - 1) \in scene THEN jbc_name(c.lobe - 1)
                ELSE cc_name(c)
    IN  Contains(name, <<"_", "L", "o", "b", "e", "_">> \o Digits(l + 1))

(* the steps of `for bladder in lobe_bladders` for the first m bladders of *)
(* lobe l: modifier_apply of the UNION with the bladder, then              *)
(* bpy.data.objects.remove(bladder)                                        *)
JoinEvents(lobe_bladders, l, m) ==
    [e \in 1..(2 * m) |->
        IF e % 2 = 1 THEN <<"union", Name(lobe_bladders[(e + 1) \div 2]), l + 1>>
                     ELSE <<"remove", Name(lobe_bladders[e \div 2]), l + 1>>]

(* join_bladders_and_channels: one iteration of `for lobe in range(3)`:    *)
(* the lobe's channel is renamed HydraulicSystem_Lobe_{lobe+1}, every      *)
(* bladder of the lobe is unioned into it and removed.  modifier_apply is  *)
(* not guarded: the union the host fails (the failAt-th of the lobe)       *)
(* raises RuntimeError out of main, after the bladders before it were      *)
(* unioned and removed.                                                    *)
CliJoinLobe ==
    /\ script = "cli" /\ pc = "join" /\ lobe \in Lobes
    /\ LET lobe_bladders == bladders_by_lobe(lobe)
           lobe_channels == SelectSeq(channels, LAMBDA c : InLobeChannel(c, lobe))
       IN  IF lobe_channels = <<>> \/ lobe_bladders = <<>>
           THEN /\ UNCHANGED <<scene, combined, exc, joinLog>>
                /\ IF lobe < 2 THEN lobe' = lobe + 1 /\ pc' = pc
                               ELSE lobe' = 0 /\ pc' = "scene_setup"
           ELSE \E failAt \in 0..Len(lobe_bladders) :
                  IF failAt = 0
                  THEN /\ scene' = ((scene \ Names(lobe_bladders))
                                       \ {Name(lobe_channels[1])})
                                    \cup {HydraulicName(lobe)}
                       /\ joinLog' = joinLog \o
                              JoinEvents(lobe_bladders, lobe, Len(lobe_bladders))
                       /\ combined' = Append(combined, HydraulicName(lobe))
                       /\ exc' = exc
                       /\ IF lobe < 2 THEN lobe' = lobe + 1 /\ pc' = pc
                                      ELSE lobe' = 0 /\ pc' = "scene_setup"
                  ELSE /\ scene' = ((scene \ Names(SubSeq(lobe_bladders, 1, failAt - 1)))
                                       \ {Name(lobe_channels[1])})
                                    \cup {HydraulicName(lobe)}
                       /\ joinLog' = Append(
                              joinLog \o JoinEvents(lobe_bladders, lobe, failAt - 1),
                              <<"union_failed", Name(lobe_bladders[failAt]), lobe + 1>>)
                       /\ combined' = combined
                       /\ exc' = "RuntimeError"
                       /\ lobe' = lobe /\ pc' = "crashed"
    /\ UNCHANGED <<body, cores_faces, script, params, host, output_dir, idx,
                   hidden, bladders, channels, connectors, cores, subtracted,
                   engine, engineLog, dirs, written, exportLog, reported,
                   exitStatus, configCheck>>

(* main: setup_camera(), setup_lighting(), setup_world(), setup_render():  *)
(* scene.render.engine = 'BLENDER_EEVEE_NEXT' is assigned outside any try  *)
CliSceneSetup ==
    /\ script = "cli" /\ pc = "scene_setup"
    /\ scene' = scene \cup { <<"RenderCamera", 0, 0, FALSE>>,
                             <<"CameraTarget", 0, 0, FALSE>>,
                             <<"MainLight", 0, 0, FALSE>>, <<"FillLight", 0, 0, FALSE>>,
                             <<"TopLight", 0, 0, FALSE>>, <<"BackLight", 0, 0, FALSE>> }
    /\ IF EngineCandidates[1] \in host.engines
       THEN /\ engine' = EngineCandidates[1]
            /\ engineLog' = Append2(engineLog, EngineCandidates[1], "set")
            /\ pc' = "render" /\ exc' = exc
       ELSE /\ engine' = engine
            /\ engineLog' = Append2(engineLog, EngineCandidates[1], "TypeError")
            /\ pc' = "crashed" /\ exc' = "TypeError"
    /\ UNCHANGED <<body, cores_faces, joinLog, script, params, host,
                   output_dir, lobe, idx, hidden, bladders, channels,
                   connectors, cores, combined, subtracted, dirs, written,
                   exportLog, reported, exitStatus, configCheck>>

(* main: render_image("tentacle_camera_view.png", "camera") *)
CliRender ==
    /\ script = "cli" /\ pc = "render"
    /\ written' = Append(written,
           File(PathJoin(output_dir, <<"tentacle_camera_view", ".png">>),
                ImageName, scene))
    /\ pc' = "save_blend"
    /\ UNCHANGED <<body, cores_faces, joinLog, script, params, host,
                   output_dir, lobe, idx, scene, hidden, bladders, channels,
                   connectors, cores, combined, subtracted, engine, engineLog,
                   dirs, exportLog, exc, reported, exitStatus, configCheck>>

(* main: save_blend_file("tentacle_complete.blend"): a failure of          *)
(* save_as_mainfile is caught and printed                                  *)
CliSaveBlend ==
    /\ script = "cli" /\ pc = "save_blend"
    /\ \E ok \in BOOLEAN :
          LET filepath == PathJoin(output_dir, <<"tentacle_complete", ".blend">>)
          IN  IF ok /\ DirName(filepath) \in dirs
              THEN written' = Append(written, File(filepath, SceneName, scene))
              ELSE written' = written
    /\ pc' = "export_body"
    /\ UNCHANGED <<body, cores_faces, joinLog, script, params, host,
                   output_dir, lobe, idx, scene, hidden, bladders, channels,
                   connectors, cores, combined, subtracted, engine, engineLog,
                   dirs, exportLog, exc, reported, exitStatus, configCheck>>

-----------------------------------------------------------------------------
(* render_tentacle_cli.py: export_stl                                      *)

(* what a call into the host ends with: it completes, or raises *)
HostOutcomes == {"ok", "AttributeError", "RuntimeError", "TypeError"}

(* `except Exception:` in place of `except AttributeError:` *)
CaughtAfterMethod1_any(e) == TRUE

(* `except AttributeError:` around method 1 (bpy.ops.export_mesh.stl) *)
CaughtAfterMethod1(e) == e = "AttributeError"

(* `except AttributeError:` around method 2 (bpy.ops.wm.stl_export) *)
CaughtAfterMethod2(e) == e = "AttributeError"

(* the bare `except:` around method 3 (bpy.ops.wm.save_as_mainfile) *)
CaughtAfterMethod3(e) == TRUE

Call(file, obj, content) ==
    [file |-> file, obj |-> obj, content |-> content, attempts |-> <<>>,
     result |-> "running"]

CurrentCall == exportLog[Len(exportLog)]

(* filepath = os.path.join(output_dir, filename) of the running call *)
cli_filepath == PathJoin(output_dir, CurrentCall.file)

(* the host writes a file only into a directory that exists *)
HostCanWrite(path, outcome) == outcome = "ok" => DirName(path) \in dirs

(* export_stl(obj, filename) returned: main goes on *)
AfterExport == IF Len(exportLog) = 1 THEN "join_hydraulics" ELSE "done"

Attempt(method, outcome) ==
    [exportLog EXCEPT ![Len(exportLog)].attempts = Append(@, <<method, outcome>>)]

Finish(log, result) == [log EXCEPT ![Len(log)].result = result]

(* main: export_stl(tentacle, "tentacle_body.stl") is called *)
CliExportBody ==
    /\ script = "cli" /\ pc = "export_body"
    /\ exportLog' = Append(exportLog,
                           Call(<<"tentacle_body", ".stl">>, BodyName, {BodyName}))
    /\ pc' = "method1"
    /\ UNCHANGED <<body, cores_faces, joinLog, script, params, host,
                   output_dir, lobe, idx, scene, hidden, bladders, channels,
                   connectors, cores, combined, subtracted, engine, engineLog,
                   dirs, written, exc, reported, exitStatus, configCheck>>

(* export_stl: method 1, bpy.ops.export_mesh.stl(filepath=filepath, ...) *)
CliExportMethod1 ==
    /\ script = "cli" /\ pc = "method1"
    /\ \E outcome \in HostOutcomes :
          /\ HostCanWrite(cli_filepath, outcome)
          /\ IF outcome = "ok"
             THEN /\ written' = Append(written,
                        File(cli_filepath, CurrentCall.obj, CurrentCall.content))
                  /\ exportLog' = Finish(Attempt(1, outcome), "returned")
                  /\ pc' = AfterExport /\ exc' = exc
             ELSE IF CaughtAfterMethod1(outcome)
             THEN /\ exportLog' = Attempt(1, outcome)
                  /\ pc' = "method2"
                  /\ UNCHANGED <<written, exc>>
             ELSE /\ exportLog' = Finish(Attempt(1, outcome), "raised")
                  /\ pc' = "crashed" /\ exc' = outcome
                  /\ written' = written
    /\ UNCHANGED <<body, cores_faces, joinLog, script, params, host,
                   output_dir, lobe, idx, scene, hidden, bladders, channels,
                   connectors, cores, combined, subtracted, engine, engineLog,
                   dirs, reported, exitStatus, configCheck>>

(* export_stl: method 2, bpy.ops.wm.stl_export(filepath=filepath, ...),    *)
(* in the handler of method 1's AttributeError                             *)
CliExportMethod2 ==
    /\ script = "cli" /\ pc = "method2"
    /\ \E outcome \in HostOutcomes :
          /\ HostCanWrite(cli_filepath, outcome)
          /\ IF outcome = "ok"
             THEN /\ written' = Append(written,
                        File(cli_filepath, CurrentCall.obj, CurrentCall.content))
                  /\ exportLog' = Finish(Attempt(2, outcome), "returned")
                  /\ pc' = AfterExport /\ exc' = exc
             ELSE IF CaughtAfterMethod2(outcome)
             THEN /\ exportLog' = Attempt(2, outcome)
                  /\ pc' = "method3"
                  /\ UNCHANGED <<written, exc>>
             ELSE /\ exportLog' = Finish(Attempt(2, outcome), "raised")
                  /\ pc' = "crashed" /\ exc' = outcome
                  /\ written' = written
    /\ UNCHANGED <<body, cores_faces, joinLog, script, params, host,
                   output_dir, lobe, idx, scene, hidden, bladders, channels,
                   connectors, cores, combined, subtracted, engine, engineLog,
                   dirs, reported, exitStatus, configCheck>>

(* blend_filepath = filepath.replace('.stl', '.blend') *)
blend_filepath == ReplaceStl(cli_filepath)

(* export_stl: method 3, bpy.ops.wm.save_as_mainfile(filepath=blend_filepath), *)
(* in the handler of method 2's AttributeError                             *)
CliExportMethod3 ==
    /\ script = "cli" /\ pc = "method3"
    /\ \E outcome \in HostOutcomes :
          /\ HostCanWrite(blend_filepath, outcome)
          /\ IF outcome = "ok"
             THEN /\ written' = Append(written, File(blend_filepath, SceneName, scene))
                  /\ exportLog' = Finish(Attempt(3, outcome), "returned")
                  /\ pc' = AfterExport /\ exc' = exc
             ELSE IF CaughtAfterMethod3(outcome)
             THEN /\ exportLog' = Finish(Attempt(3, outcome), "returned")
                  /\ pc' = AfterExport
                  /\ UNCHANGED <<written, exc>>
             ELSE /\ exportLog' = Finish(Attempt(3, outcome), "raised")
                  /\ pc' = "crashed" /\ exc' = outcome
                  /\ written' = written
    /\ UNCHANGED <<body, cores_faces, joinLog, script, params, host,
                   output_dir, lobe, idx, scene, hidden, bladders, channels,
                   connectors, cores, combined, subtracted, engine, engineLog,
                   dirs, reported, exitStatus, configCheck>>

(* main: if combined_hydraulics: select them, bpy.ops.object.join() into   *)
(* combined_hydraulics[0], export_stl(active, "tentacle_hydraulic_systems.stl") *)
CliExportHydraulics ==
    /\ script = "cli" /\ pc = "join_hydraulics"
    /\ IF combined # <<>>
       THEN /\ scene' = scene \ (Range(combined) \ {combined[1]})
            /\ exportLog' = Append(exportLog,
                  Call(<<"tentacle_hydraulic_systems", ".stl">>, combined[1],
                       Range(combined)))
            /\ pc' = "method1"
       ELSE /\ pc' = "done"
            /\ UNCHANGED <<scene, exportLog>>
    /\ UNCHANGED <<body, cores_faces, joinLog, script, params, host,
                   output_dir, lobe, idx, hidden, bladders, channels,
                   connectors, cores, combined, subtracted, engine, engineLog,
                   dirs, written, exc, reported, exitStatus, configCheck>>

(* main returns and the script ends *)
CliMainReturned ==
    /\ script = "cli" /\ pc = "done"
    /\ exitStatus' = 0
    /\ pc' = "exited"
    /\ UNCHANGED <<body, cores_faces, joinLog, script, params, host,
                   output_dir, lobe, idx, scene, hidden, bladders, channels,
                   connectors, cores, combined, subtracted, engine, engineLog,
                   dirs, written, exportLog, exc, reported, configCheck>>

CliNext ==
    \/ CliSetupOutputDir
    \/ CliCreateTentacle
    \/ CliCreateBladder
    \/ CliLobeDone
    \/ CliCreateChannels
    \/ CliJoinLobe
    \/ CliSceneSetup
    \/ CliRender
    \/ CliSaveBlend
    \/ CliExportBody
    \/ CliExportMethod1
    \/ CliExportMethod2
    \/ CliExportMethod3
    \/ CliExportHydraulics
    \/ CliMainReturned

Next == GenNext \/ CliNext

Spec == Init /\ [][Next]_vars

-----------------------------------------------------------------------------
(* Claims                                                                  *)

GenFullRun == script = "generator" /\ configCheck # "none"

BladdersOfLobe(l) == {k \in DOMAIN bladders : bladders[k].lobe = l + 1}

(* C1: a full run of the generator's main creates exactly 8 bladders for   *)
(* each of the 3 lobes (24 in all), exactly 3 channels and exactly 3       *)
(* connector holes, and the final configuration check takes the            *)
(* "Configuration matches requirements" branch.                            *)
C1_FullRunMatchesConfiguration ==
    GenFullRun =>
        /\ \A l \in Lobes : Cardinality(BladdersOfLobe(l)) = 8
        /\ Len(bladders) = 24
        /\ Cardinality(Names(bladders)) = 24
        /\ Len(channels) = 3
        /\ Len(connectors) = 3
        /\ configCheck = "match"

C1_Witness ==
    /\ GenFullRun /\ params = GenDefaults /\ pc = "exited"
    /\ Len(bladders) = 24 /\ configCheck = "match"

MainStlPath == PathJoin(export_path, <<"tri_lobe_tentacle", ".stl">>)

MainStlFiles == {k \in DOMAIN written : written[k].path = MainStlPath}

(* C2, as claimed: in a full run of the generator with its shipped         *)
(* settings every bladder, channel and connector void has been subtracted  *)
(* from the body before the body is exported as tri_lobe_tentacle.stl.     *)
C2_Claimed_AllVoidsSubtractedBeforeExport ==
    (script = "generator" /\ params = GenDefaults) =>
        \A k \in MainStlFiles : written[k].content = Names(void_objects)

(* C2, amended: with the shipped settings (skip_boolean_ops = True) no     *)
(* void is subtracted: the voids are only hidden, and the body is exported *)
(* without any cavity.  Only with skip_boolean_ops = False are the voids   *)
(* subtracted before the export: then the exported body has every void cut *)
(* out whose boolean modifier the host applied, and no void object is left *)
(* in the scene.                                                           *)
C2_ExportedBodyFollowsSkipSwitch ==
    script = "generator" =>
        \A k \in MainStlFiles :
            IF params.skip_boolean_ops
            THEN /\ written[k].content = {}
                 /\ Names(void_objects) \subseteq hidden
                 /\ Names(void_objects) \subseteq scene
            ELSE /\ Names(void_objects) \ FailCandidates \subseteq written[k].content
                 /\ written[k].content \subseteq Names(void_objects)
                 /\ Names(void_objects) \cap scene = {}

C2_Witness ==
    /\ script = "generator" /\ params = GenDefaults
    /\ MainStlFiles # {}
    /\ \A k \in MainStlFiles : written[k].content = {}

(* C3, as claimed: in the cli, for every lobe the channel start and end    *)
(* points computed in create_bladders equal those computed in              *)
(* create_channels, and every bladder of the lobe has its centre on the    *)
(* segment between them, its interpolation ratio z_pos / z_end in [0, 1],  *)
(* for every positive tentacle length and bladder spacing.                 *)
C3_Claimed_BladdersOnChannelSegment ==
    script = "cli" =>
        /\ \A k \in DOMAIN channels :
              /\ cb_start(params, k - 1) = channels[k].start
              /\ cb_end(params, k - 1) = channels[k].end
        /\ \A k \in DOMAIN bladders :
              /\ QLe(QInt(0), bladders[k].path_ratio)
              /\ QLe(bladders[k].path_ratio, QInt(1))

(* the silicone wall of a cli bladder at the lobe peak: the body radius at *)
(* the bladder's height z (the deformation taken at z / len), minus the    *)
(* centre's offset from the axis, minus the bladder's cross-section radius *)
WallAt(P, b) ==
    QSub(QSub(cst_vertex_radius(P, cb_angle(b.lobe - 1),
                                QDiv(b.z_pos, P.tentacle_len_mm)),
              QAbs(cb_center_offset(P, b))),
         b.radius)

(* C4, as claimed: in the cli with the default parameters every bladder    *)
(* keeps a silicone wall of at least 3 mm at the lobe peak.                *)
C4_Claimed_WallAtLeast3mm ==
    (script = "cli" /\ params = CliDefaults) =>
        \A k \in DOMAIN bladders : QLe(QInt(3), WallAt(params, bladders[k]))

(* the heights at which a cylinder is checked: both ends and the middle *)
CylinderHeights(v) == {QSub(v.z, v.half_height), v.z, QAdd(v.z, v.half_height)}

(* the void v stays within the tapered body radius at height z, the taper  *)
(* taken at z / len                                                        *)
InsideBodyAt(P, v, z) ==
    QLe(QAdd(v.off, v.radius),
        slb_vertex_radius(P, v.deg, QDiv(z, P.tentacle_len_mm)))

(* C5, as claimed: in the generator (here with its shipped parameters)     *)
(* every bladder and every channel is internal to the body: its offset     *)
(* from the axis plus its cross-section radius does not exceed the tapered *)
(* body radius at its height (a bladder at its centre, where its           *)
(* cross-section is widest; a channel over its whole depth).               *)
C5_Claimed_VoidsInsideBody ==
    (script = "generator" /\ params = GenDefaults) =>
        /\ \A k \in DOMAIN bladders :
              InsideBodyAt(params, bladders[k], bladders[k].z)
        /\ \A k \in DOMAIN channels :
              \A z \in CylinderHeights(channels[k]) :
                  InsideBodyAt(params, channels[k], z)

(* path lies inside the directory dir *)
IsInside(path, dir) ==
    /\ Len(path) > Len(dir) + 1
    /\ SubSeq(path, 1, Len(dir)) = dir
    /\ path[Len(dir) + 1] = "/"

(* C6, as claimed: in the cli's main the output directory exists before    *)
(* any step writes into it, and every file the run writes (the image, the  *)
(* scene file, each STL or its .blend fallback) lies inside it.            *)
C6_Claimed_EveryFileInsideOutputDir ==
    script = "cli" =>
        /\ written # <<>> => output_dir \in dirs
        /\ \A k \in DOMAIN written : IsInside(written[k].path, output_dir)

(* C7: when an exception leaves the generator's main, the script reports   *)
(* the error and exits with status 1; when main returns normally it does   *)
(* not exit with status 1 (and reports no error).                          *)
C7_ExitStatusTellsFailure ==
    (script = "generator" /\ pc = "exited") =>
        IF exc # "none"
        THEN reported /\ exitStatus = 1
        ELSE ~reported /\ exitStatus # 1 /\ configCheck # "none"

C7_Witness ==
    /\ script = "generator" /\ pc = "exited"
    /\ exc = "RuntimeError" /\ reported /\ exitStatus = 1

Oks(c) == {k \in DOMAIN c.attempts : c.attempts[k][2] = "ok"}

(* C8: the cli's export_stl tries its three methods in the fixed order     *)
(* 1, 2, 3; a later method is attempted only when every earlier one raised *)
(* AttributeError; at most one method completes per call, and none is      *)
(* tried after it; an exception of any kind from the third method is       *)
(* swallowed; any other exception from the first or second method leaves   *)
(* the call without a further attempt.                                     *)
C8_ExportFallbackOrder ==
    script = "cli" =>
        \A n \in DOMAIN exportLog :
            LET c == exportLog[n]
                a == c.attempts
            IN  /\ Len(a) <= 3
                /\ \A k \in DOMAIN a : a[k][1] = k
                /\ \A k \in DOMAIN a : \A j \in 1..(k - 1) : a[j][2] = "AttributeError"
                /\ Cardinality(Oks(c)) <= 1
                /\ \A k \in Oks(c) : k = Len(a) /\ c.result = "returned"
                /\ (Len(a) = 3 /\ a[3][2] # "ok") => c.result = "returned"
                /\ \A k \in DOMAIN a :
                      (k < 3 /\ a[k][2] \notin {"ok", "AttributeError"}) =>
                          /\ k = Len(a) /\ c.result = "raised"
                          /\ n = Len(exportLog) /\ pc = "crashed" /\ exc = a[k][2]
                /\ c.result = "running" => (n = Len(exportLog) /\ Oks(c) = {})

C8_Witness ==
    /\ script = "cli"
    /\ \E n \in DOMAIN exportLog :
          /\ Len(exportLog[n].attempts) = 3
          /\ exportLog[n].attempts[3][2] = "RuntimeError"
          /\ exportLog[n].result = "returned"
    /\ pc = "exited"

(* C9, as claimed: in the cli's create_channels with the default           *)
(* parameters each channel's base radius is 15% of the tentacle's base     *)
(* radius, and its tip radius is 10% of the tentacle radius at 85% height, *)
(* which is 15% of the base radius.                                        *)
C9_Claimed_ChannelRadiiProportional ==
    (script = "cli" /\ params = CliDefaults) =>
        \A k \in DOMAIN channels :
            /\ channels[k].radius1 = QMul(Q(15, 100), params.base_radius_mm)
            /\ channels[k].radius2 =
                  QMul(Q(10, 100), QMul(Q(15, 100), params.base_radius_mm))

(* the radius C10 states for a bladder at height z *)
ClaimedBladderRadius(P, z) ==
    LET local == QMul(P.base_radius_mm, QSub(QInt(1), QDiv(z, P.tentacle_len_mm)))
        ratio == QSub(Q(35, 100), QMul(Q(15, 100), QDiv(z, P.tentacle_len_mm)))
        raw == QMul(local, ratio)
        lower == Q(1, 2)
        upper == QMul(Q(12, 10), P.bladder_short_mm)
    IN  IF QLt(upper, lower) THEN lower
        ELSE IF QLt(raw, lower) THEN lower
        ELSE IF QLt(upper, raw) THEN upper
        ELSE raw

(* C10: every bladder the cli's create_bladders creates has the radius     *)
(* base_radius * (1 - z/len) * (0.35 - 0.15 * z/len), limited to           *)
(* [0.5 mm, 1.2 * bladder_short_mm]; it is never below 0.5 mm, and when    *)
(* the lower limit exceeds the upper limit the lower limit is used.        *)
C10_BladderRadiusClamped ==
    script = "cli" =>
        \A k \in DOMAIN bladders :
            /\ bladders[k].radius = ClaimedBladderRadius(params, bladders[k].z_pos)
            /\ QLe(Q(1, 2), bladders[k].radius)

C10_Witness ==
    /\ script = "cli"
    /\ QLt(QMul(Q(12, 10), params.bladder_short_mm), Q(1, 2))
    /\ Len(bladders) > 0
    /\ \A k \in DOMAIN bladders : bladders[k].radius = Q(1, 2)

(* C11 as claimed: in both scripts the primitive's base end lies at world  *)
(* height 0, every body vertex at the base end of the mesh has height      *)
(* ratio 0 and every one at the tip end has height ratio 1; so the         *)
(* generator's loop computes for a vertex the ratio the cli's loop         *)
(* computes for the same local z, and its taper leaves the tip vertices at *)
(* the tip radius.                                                         *)
C11_Claimed_HeightRatioZeroAtBaseOneAtTip ==
    \A v \in body.verts :
        /\ QAdd(z_base(params), location_z(params)) = QInt(0)
        /\ v.z = z_base(params) => v.z_ratio = QInt(0)
        /\ v.z = z_tip(params) => v.z_ratio = QInt(1)
        /\ script = "generator" =>
              /\ v.z_ratio = cst_z_ratio(params, v.z)
              /\ v.z = z_tip(params) => v.radius = params.tip_radius_mm

(* the positive multiples k of the spacing with k * spacing < len - spacing *)
MultiplesBelowLastSpacing(P) ==
    {k \in 1..QTrunc(QDiv(P.tentacle_len_mm, P.bladder_spacing_mm)) :
        QLt(QMul(QInt(k), P.bladder_spacing_mm),
            QSub(P.tentacle_len_mm, P.bladder_spacing_mm))}

(* create_bladders of the cli has returned *)
CliBladdersCreated ==
    script = "cli" /\ pc \notin {"setup_output_dir", "create_tentacle", "bladders"}

(* the bladders create_bladders appended for lobe l, in creation order *)
CreatedForLobe(l) == SelectSeq(bladders, LAMBDA b : b.lobe = l + 1)

(* C12: once create_bladders has returned, every lobe has as many bladders *)
(* as there are positive multiples of the spacing strictly below           *)
(* len - spacing, the j-th bladder of a lobe is the one numbered j at      *)
(* height j * spacing, the lobes follow each other in the list, and with   *)
(* the shipped length and spacing that is 8 per lobe and 24 in all.        *)
C12_BladderCountPerLobe ==
    CliBladdersCreated =>
        LET count == Cardinality(MultiplesBelowLastSpacing(params))
        IN  /\ \A l \in Lobes :
                  /\ Len(CreatedForLobe(l)) = count
                  /\ \A j \in 1..count :
                        /\ CreatedForLobe(l)[j].n = j
                        /\ CreatedForLobe(l)[j].z_pos =
                               QMul(QInt(j), params.bladder_spacing_mm)
                        /\ bladders[l * count + j] = CreatedForLobe(l)[j]
            /\ Len(bladders) = 3 * count
            /\ (/\ params.tentacle_len_mm = CliDefaults.tentacle_len_mm
                /\ params.bladder_spacing_mm = CliDefaults.bladder_spacing_mm)
                   => count = 8 /\ Len(bladders) = 24

(* create_bladders has returned from a run with the shipped length and     *)
(* spacing, whose loops were each left by the break at the ninth multiple  *)
C12_Witness ==
    /\ script = "cli" /\ pc = "channels"
    /\ params.tentacle_len_mm = CliDefaults.tentacle_len_mm
    /\ params.bladder_spacing_mm = CliDefaults.bladder_spacing_mm
    /\ num_bladders(params) = 9 /\ cb_break(params, 8)
    /\ Len(bladders) = 24

(* join_bladders_and_channels has returned to the cli's main *)
CliJoinReturned ==
    script = "cli" /\ pc \notin {"setup_output_dir", "create_tentacle", "bladders",
                                 "channels", "join", "crashed"}

(* main has joined the hydraulic systems into one object for the export *)
CliHydraulicsJoined == Len(exportLog) >= 2

(* the positions of joinLog that are unions *)
Unions == {e \in DOMAIN joinLog : joinLog[e][1] = "union"}

(* C13: every bladder's name passes the test of exactly one lobe, the one  *)
(* it was created for, so it is grouped under that lobe alone; the m-th    *)
(* union of the log is the union of the m-th bladder created into the      *)
(* channel of that bladder's lobe, and the next entry of the log is the    *)
(* removal of that bladder; no two bladders are the same object, so no     *)
(* bladder is unioned twice; once the call has returned every bladder was  *)
(* unioned; and after a run with the shipped parameters (up to main's own  *)
(* object.join() of the three systems) no bladder is left in the scene,    *)
(* the three channels carry the names HydraulicSystem_Lobe_1..3 and the    *)
(* list returned holds exactly these three in lobe order.                  *)
C13_JoinUnionsAndRemovesEveryBladder ==
    script = "cli" =>
        /\ \A k \in DOMAIN bladders :
              {l \in Lobes : InLobe(bladders[k], l)} = {bladders[k].lobe - 1}
        /\ \A l \in Lobes :
              pc = "join" => bladders_by_lobe(l) = CreatedForLobe(l)
        /\ \A e \in Unions :
              LET m == (e + 1) \div 2
              IN  /\ e = 2 * m - 1 /\ m \in DOMAIN bladders
                  /\ joinLog[e] = <<"union", Name(bladders[m]), bladders[m].lobe>>
                  /\ e + 1 \in DOMAIN joinLog
                  /\ joinLog[e + 1] = <<"remove", Name(bladders[m]), bladders[m].lobe>>
        /\ Cardinality(Names(bladders)) = Len(bladders)
        /\ CliJoinReturned =>
              /\ Len(joinLog) = 2 * Len(bladders)
              /\ Unions = {2 * m - 1 : m \in DOMAIN bladders}
        /\ (CliJoinReturned /\ params = CliDefaults /\ ~CliHydraulicsJoined) =>
              /\ Names(bladders) \cap scene = {}
              /\ Names(channels) \cap scene = {}
              /\ \A l \in Lobes : HydraulicName(l) \in scene
              /\ combined = <<HydraulicName(0), HydraulicName(1), HydraulicName(2)>>

(* join_bladders_and_channels has just returned from a run with the        *)
(* shipped parameters, having unioned and removed all 24 bladders          *)
C13_Witness ==
    /\ script = "cli" /\ pc = "scene_setup" /\ params = CliDefaults
    /\ Len(bladders) = 24 /\ Len(joinLog) = 48
    /\ Len(combined) = 3

(* C14 as claimed, for a run with the shipped parameters:                  *)
(* when main reaches save_blend_file, every bladder                        *)
(* create_bladders made and every channel create_channels made (under the  *)
(* name it was created with or the one join_bladders_and_channels gave it) *)
(* is an object of the scene, and so of the scene file saved.              *)
C14_Claimed_SavedWithAllSeparateObjects ==
    LET separate(objs) ==
            /\ \A k \in DOMAIN bladders : Name(bladders[k]) \in objs
            /\ \A k \in DOMAIN channels :
                  \/ Name(channels[k]) \in objs
                  \/ HydraulicName(channels[k].lobe - 1) \in objs
    IN  (script = "cli" /\ params = CliDefaults) =>
            /\ pc = "save_blend" => separate(scene)
            /\ \A k \in DOMAIN written :
                  written[k].path = PathJoin(output_dir, <<"tentacle_complete", ".blend">>)
                      => separate(written[k].content)

(* the assignments of engineLog the host rejected *)
Rejected(log) == {k \in DOMAIN log : log[k][2] = "TypeError"}

(* the generator's main is past its engine selection *)
GenEngineSelected ==
    script = "generator" /\ pc \notin {"clear_scene", "engine1", "engine2", "engine3"}

(* the order the engines are to be tried in *)
ClaimedEngineOrder == <<"BLENDER_EEVEE_NEXT", "BLENDER_EEVEE", "CYCLES">>

(* C15: the generator assigns the candidates in the order                  *)
(* BLENDER_EEVEE_NEXT, BLENDER_EEVEE, CYCLES, a candidate only after every *)
(* earlier one was rejected and none after one was accepted; once the      *)
(* selection is over the engine set is the first candidate the host        *)
(* accepts, and a TypeError has left main only if CYCLES, the third        *)
(* candidate, was rejected too.                                            *)
C15_EngineSelectionOrder ==
    script = "generator" =>
        /\ Len(engineLog) <= 3
        /\ \A k \in DOMAIN engineLog :
              /\ engineLog[k][1] = ClaimedEngineOrder[k]
              /\ \A j \in 1..(k - 1) : engineLog[j][2] = "TypeError"
        /\ GenEngineSelected =>
              LET accepted == {k \in 1..3 : ClaimedEngineOrder[k] \in host.engines}
              IN  /\ \A k \in accepted :
                        (\A j \in accepted : k <= j)
                            => /\ engine = ClaimedEngineOrder[k]
                               /\ Len(engineLog) = k
                               /\ engineLog[k][2] = "set"
                  /\ accepted = {} => engine = "default" /\ Rejected(engineLog) = 1..3
                  /\ (exc = "TypeError" /\ pc \in {"raised", "exited"})
                        => Rejected(engineLog) = 1..3
                  /\ Rejected(engineLog) \in {{}, {1}, {1, 2}, {1, 2, 3}}

(* a run whose host rejected BLENDER_EEVEE_NEXT and BLENDER_EEVEE, took    *)
(* CYCLES and went on to create the body                                   *)
C15_Witness ==
    /\ script = "generator" /\ pc = "bladders"
    /\ engine = "CYCLES"
    /\ engineLog = << <<"BLENDER_EEVEE_NEXT", "TypeError">>,
                      <<"BLENDER_EEVEE", "TypeError">>, <<"CYCLES", "set">> >>
    /\ exc = "none"

(* C16 as claimed, for a run with the shipped parameters: every facet of   *)
(* every STL file the generator's export_stl has written holds exactly     *)
(* three vertex lines.                                                     *)
C16_Claimed_EveryFacetIsATriangle ==
    (script = "generator" /\ params = GenDefaults) =>
        \A k \in DOMAIN written :
            \A f \in DOMAIN written[k].facets : written[k].facets[f] = 3

=============================================================================
